---- MODULE Spec2Model ----
(***************************************************************************)
(* Model of the research-paper summarisation pipeline of                   *)
(* Cactus-Communication.ipynb: clean_text, split_into_sections and         *)
(* HybridSummarizer (summarize_sections, extractive_summary).              *)
(*                                                                         *)
(* Text is a sequence of characters; a character is a one-character string *)
(* ("a", " ", "#"), or a named code point for the non-ASCII ones.          *)
(***************************************************************************)
EXTENDS Integers, Sequences, FiniteSets, TLC

VARIABLES
    \* split_into_sections
    sentences, idx, current_section, sections, pc,
    \* HybridSummarizer.summarize_sections
    sum_sections, pos, summaries, calls, spc,
    \* HybridSummarizer.extractive_summary
    ex_sentences, sentence_scores, ex_result, epc,
    \* clean_text
    raw_text, text, cpc

segVars == <<sentences, idx, current_section, sections, pc>>
sumVars == <<sum_sections, pos, summaries, calls, spc>>
exVars  == <<ex_sentences, sentence_scores, ex_result, epc>>
clnVars == <<raw_text, text, cpc>>
vars == <<segVars, sumVars, exVars, clnVars>>

----------------------------------------------------------------------------
(* Characters and the string operations of Python the code relies on.      *)

Upper == <<"A", "B", "C", "D", "E", "F", "G", "H", "I", "J", "K", "L", "M", "N", "O", "P", "Q", "R", "S", "T", "U", "V", "W", "X", "Y", "Z">>
Lower == <<"a", "b", "c", "d", "e", "f", "g", "h", "i", "j", "k", "l", "m", "n", "o", "p", "q", "r", "s", "t", "u", "v", "w", "x", "y", "z">>
Digits == <<"0", "1", "2", "3", "4", "5", "6", "7", "8", "9">>

\* Non-ASCII code points that occur in the inputs of the model.
NBSP    == "U+00A0"    \* no-break space: str.isspace() and \s both accept it
EACUTE  == "U+00E9"    \* a letter outside a-zA-Z
ARDIGIT == "U+0663"    \* ARABIC-INDIC DIGIT THREE: \d accepts it, 0-9 does not

Range(f) == {f[i] : i \in DOMAIN f}

\* str.lower() on one character.
LowerChar(c) ==
    IF \E i \in DOMAIN Upper : Upper[i] = c
    THEN Lower[CHOOSE i \in DOMAIN Upper : Upper[i] = c]
    ELSE c

\* str.lower()
ToLower(s) == [i \in DOMAIN s |-> LowerChar(s[i])]

\* Python's `kw in s` on strings: kw occurs as a contiguous substring of s.
Contains(s, kw) ==
    \E i \in 0..(Len(s) - Len(kw)) : SubSeq(s, i + 1, i + Len(kw)) = kw

----------------------------------------------------------------------------
(* split_into_sections                                                     *)

kw_title == <<"t", "i", "t", "l", "e">>
kw_abstract == <<"a", "b", "s", "t", "r", "a", "c", "t">>
kw_introduction == <<"i", "n", "t", "r", "o", "d", "u", "c", "t", "i", "o", "n">>
kw_methods == <<"m", "e", "t", "h", "o", "d", "s">>
kw_methodology == <<"m", "e", "t", "h", "o", "d", "o", "l", "o", "g", "y">>
kw_materials_methods == <<"m", "a", "t", "e", "r", "i", "a", "l", "s", " ", "&", " ", "m", "e", "t", "h", "o", "d", "s">>
kw_results == <<"r", "e", "s", "u", "l", "t", "s">>
kw_findings == <<"f", "i", "n", "d", "i", "n", "g", "s">>
kw_discussion == <<"d", "i", "s", "c", "u", "s", "s", "i", "o", "n">>
kw_analysis == <<"a", "n", "a", "l", "y", "s", "i", "s">>
kw_conclusion == <<"c", "o", "n", "c", "l", "u", "s", "i", "o", "n">>
kw_summary == <<"s", "u", "m", "m", "a", "r", "y">>
kw_final_thoughts == <<"f", "i", "n", "a", "l", " ", "t", "h", "o", "u", "g", "h", "t", "s">>

\* The dict literal section_headers; a dict iterates in insertion order, so
\* it is a sequence of (key, value) items.
section_headers == <<
    [section |-> "Title",        keywords |-> <<kw_title>>],
    [section |-> "Abstract",     keywords |-> <<kw_abstract>>],
    [section |-> "Introduction", keywords |-> <<kw_introduction>>],
    [section |-> "Methods",      keywords |-> <<kw_methods, kw_methodology, kw_materials_methods>>],
    [section |-> "Results",      keywords |-> <<kw_results, kw_findings>>],
    [section |-> "Discussion",   keywords |-> <<kw_discussion, kw_analysis>>],
    [section |-> "Conclusion",   keywords |-> <<kw_conclusion, kw_summary, kw_final_thoughts>>] >>

SectionNames == {section_headers[k].section : k \in DOMAIN section_headers}

\* sections = {key: "" for key in section_headers}
EmptySections == [s \in SectionNames |-> <<>>]

\* Mutant: the cursor starts at the second section.
InitialSectionAbstract == "Abstract"

\* current_section = "Title"
InitialSection == "Title"

\* any(keyword in sentence.lower() for keyword in keywords)
AnyKeyword(sentence, keywords) ==
    \E j \in DOMAIN keywords : Contains(ToLower(sentence), keywords[j])

\* The inner for loop from item k on: the first item whose keywords match
\* sets current_section and breaks; with no match current_section is kept.
RECURSIVE ScanHeaders(_, _, _)
ScanHeaders(sentence, k, cur) ==
    IF k > Len(section_headers) THEN cur
    ELSE IF AnyKeyword(sentence, section_headers[k].keywords)
         THEN section_headers[k].section
         ELSE ScanHeaders(sentence, k + 1, cur)

\* Mutant: without a match the cursor falls back to Title.
DetectSectionResets(sentence, cur) == ScanHeaders(sentence, 1, "Title")

\* Mutant: the loop without its break, so the last matching section wins.
RECURSIVE ScanNoBreak(_, _, _)
ScanNoBreak(sentence, k, cur) ==
    IF k > Len(section_headers) THEN cur
    ELSE ScanNoBreak(sentence, k + 1,
                     IF AnyKeyword(sentence, section_headers[k].keywords)
                     THEN section_headers[k].section ELSE cur)
DetectSectionNoBreak(sentence, cur) == ScanNoBreak(sentence, 1, cur)

DetectSection(sentence, cur) == ScanHeaders(sentence, 1, cur)

\* Mutant: = in place of +=.
AppendOverwrite(secs, cur, sentence) ==
    [secs EXCEPT ![cur] = sentence \o <<" ">>]

\* Mutant: the lower-cased sentence is appended.
AppendLowered(secs, cur, sentence) ==
    [secs EXCEPT ![cur] = @ \o ToLower(sentence) \o <<" ">>]

\* sections[current_section] += sentence + " "
AppendSentence(secs, cur, sentence) ==
    [secs EXCEPT ![cur] = @ \o sentence \o <<" ">>]

\* The sentences sent_tokenize may hand back (the tokenizer is a library).
SentPlain == <<"I", "t", " ", "w", "o", "r", "k", "s", ".">>
SentMethods == <<"O", "u", "r", " ", "M", "e", "t", "h", "o", "d", "s", ".">>
SentResultsUpper == <<"R", "E", "S", "U", "L", "T", "S", " ", "r", "o", "s", "e", ".">>
SentDiscResults == <<"D", "i", "s", "c", "u", "s", "s", "i", "o", "n", " ", "o", "f", " ", "r", "e", "s", "u", "l", "t", "s", ".">>
SentTitle == <<"S", "u", "b", "t", "i", "t", "l", "e", ".">>
SentMethResDisc == <<"M", "e", "t", "h", "o", "d", "s", ",", " ", "r", "e", "s", "u", "l", "t", "s", ",", " ", "a", "n", "a", "l", "y", "s", "i", "s", ".">>
SentSummary == <<"I", "n", " ", "s", "u", "m", "m", "a", "r", "y", ".">>

SentencePool == {SentPlain, SentMethods, SentResultsUpper, SentDiscResults,
                 SentTitle, SentMethResDisc, SentSummary}

\* The five sentences of the worked example.
Ex1 == <<"T", "h", "i", "s", " ", "p", "a", "p", "e", "r", " ", "p", "r", "e", "s", "e", "n", "t", "s", " ", "M", "e", "t", "h", "o", "d", "s", ".">>
Ex2 == <<"W", "e", " ", "u", "s", "e", "d", " ", "X", ".">>
Ex3 == <<"R", "e", "s", "u", "l", "t", "s", " ", "s", "h", "o", "w", " ", "Y", " ", "i", "m", "p", "r", "o", "v", "e", "d", ".">>
Ex4 == <<"I", "n", " ", "D", "i", "s", "c", "u", "s", "s", "i", "o", "n", ",", " ", "Z", " ", "h", "o", "l", "d", "s", ".">>
Ex5 == <<"M", "e", "t", "h", "o", "d", "s", " ", "s", "e", "c", "t", "i", "o", "n", " ", "r", "e", "v", "i", "e", "w", "e", "d", " ", "a", "g", "a", "i", "n", ".">>
Example == <<Ex1, Ex2, Ex3, Ex4, Ex5>>

MaxSentences == 3

SeqsUpTo(S, n) == UNION {[1..m -> S] : m \in 0..n}

SegIdle == /\ sentences = <<>>
           /\ idx = 0
           /\ current_section = InitialSection
           /\ sections = EmptySections
           /\ pc = "idle"

\* Position in split_into_sections: "loop" at the head of the for loop over
\* the sentences (idx is the next sentence), "done" after return.
SegInit ==
    /\ sentences \in SeqsUpTo(SentencePool, MaxSentences) \cup {Example}
    /\ idx = 1
    /\ current_section = InitialSection
    /\ sections = EmptySections
    /\ pc = "loop"

\* One iteration of `for sentence in sentences`.
ProcessSentence ==
    /\ pc = "loop"
    /\ idx <= Len(sentences)
    /\ LET sentence == sentences[idx]
           cur == DetectSection(sentence, current_section)
       IN  /\ current_section' = cur
           /\ sections' = AppendSentence(sections, cur, sentence)
    /\ idx' = idx + 1
    /\ UNCHANGED <<sentences, pc>>
    /\ UNCHANGED <<sumVars, exVars, clnVars>>

\* return sections
ReturnSections ==
    /\ pc = "loop"
    /\ idx > Len(sentences)
    /\ pc' = "done"
    /\ UNCHANGED <<sentences, idx, current_section, sections>>
    /\ UNCHANGED <<sumVars, exVars, clnVars>>

----------------------------------------------------------------------------
(* HybridSummarizer                                                        *)
(*                                                                         *)
(* A section's content is here a sequence of tokens: whitespace characters *)
(* and sentence texts, the units spaCy's sentence segmenter hands back.    *)

Whitespace == {" ", "\t", "\n", NBSP}

\* str.lstrip()
RECURSIVE LStrip(_)
LStrip(s) ==
    IF s # <<>> /\ Head(s) \in Whitespace THEN LStrip(Tail(s)) ELSE s

\* str.rstrip()
RECURSIVE RStrip(_)
RStrip(s) ==
    IF s # <<>> /\ s[Len(s)] \in Whitespace
    THEN RStrip(SubSeq(s, 1, Len(s) - 1)) ELSE s

\* Mutant: no trimming.
StripNothing(s) == s

\* str.strip(): leading and trailing whitespace removed.
Strip(s) == RStrip(LStrip(s))

\* self.summarization_strategy
summarization_strategy ==
    [s \in {"Methods", "Results", "Introduction", "Discussion", "Conclusion"} |->
        IF s \in {"Methods", "Results"} THEN "extractive" ELSE "abstractive"]

\* Mutant: the fallback is the abstractive summarizer.
DefaultAbstractive == "abstractive"

\* The fallback argument of summarization_strategy.get(section, ...)
DefaultStrategy == "extractive"

\* self.summarization_strategy.get(section, self.extractive_summary)
StrategyFor(section) ==
    IF section \in DOMAIN summarization_strategy
    THEN summarization_strategy[section]
    ELSE DefaultStrategy

\* max_sentences=3
max_sentences == 3

\* [sent.text for sent in self.nlp(text).sents]
Sents(content) == SelectSeq(content, LAMBDA t : t \notin Whitespace)

\* TfidfVectorizer.fit_transform raises ValueError (empty vocabulary) when no
\* sentence holds a term that is not a stop word, i.e. every row sums to 0.
EmptyVocabulary(scores) == \A i \in DOMAIN scores : scores[i] = 0

\* The index sorted() puts first among the indices of I with reverse=True:
\* the highest score; sorted() is stable, so the earliest index among equals.
FirstDesc(scores, I) ==
    CHOOSE i \in I : \A j \in I : \/ scores[i] > scores[j]
                                  \/ scores[i] = scores[j] /\ i <= j

\* sorted(range(len(sentence_scores)), key=lambda i: sentence_scores[i, 0],
\*        reverse=True), on the indices of I.
RECURSIVE SortedByScoreDesc(_, _)
SortedByScoreDesc(scores, I) ==
    IF I = {} THEN <<>>
    ELSE LET i == FirstDesc(scores, I)
         IN  <<i>> \o SortedByScoreDesc(scores, I \ {i})

\* seq[:n]
Take(seq, n) == SubSeq(seq, 1, IF n < Len(seq) THEN n ELSE Len(seq))

\* top_sentence_indices
TopSentenceIndices(scores) ==
    Take(SortedByScoreDesc(scores, DOMAIN scores), max_sentences)

\* sorted(top_sentence_indices)
RECURSIVE SortedAsc(_)
SortedAsc(I) ==
    IF I = {} THEN <<>>
    ELSE LET i == CHOOSE i \in I : \A j \in I : i <= j
         IN  <<i>> \o SortedAsc(I \ {i})

\* Mutant: the selected indices are joined in score order.
JoinInScoreOrder(top) == top

\* The order in which the selected indices are joined.
JoinOrder(top) == SortedAsc(Range(top))

\* ' '.join(parts)
RECURSIVE Join(_)
Join(parts) ==
    IF parts = <<>> THEN <<>>
    ELSE IF Len(parts) = 1 THEN <<parts[1]>>
    ELSE <<parts[1], " ">> \o Join(Tail(parts))

\* extractive_summary, after the vectorizer has scored the sentences.
ExtractiveSummary(sents, scores) ==
    LET order == JoinOrder(TopSentenceIndices(scores))
    IN  Join([k \in DOMAIN order |-> sents[order[k]]])

\* abstractive_summary: the text the BART model generates for the content
\* (the model is a library; its output is kept symbolic).
AbstractiveSummary(content) == <<"bart", content>>

\* The scores the vectorizer may give the sentences of one section.
MaxScore == 2
ScoreRows(n) == [1..n -> 0..MaxScore]

\* Keys of the dict handed to summarize_sections: the seven keys
\* split_into_sections creates, and one name outside the strategy table.
SummaryKeys == <<"Title", "Abstract", "Introduction", "Methods", "Results",
                 "Discussion", "Conclusion", "Appendix">>

\* Section contents: whitespace only, one sentence, two sentences.
ContentPool == { <<" ">>, <<"S1.", " ">>, <<"S1.", " ", "S2.", " ">> }

\* At most MaxFilled sections hold text; the other keys split_into_sections
\* created hold the empty string.
MaxFilled == 2

SectionDict(filled, content) ==
    LET keys == SelectSeq(SummaryKeys,
                          LAMBDA k : k \in SectionNames \/ k \in filled)
    IN  [i \in DOMAIN keys |->
            [section |-> keys[i],
             content |-> IF keys[i] \in filled THEN content[keys[i]] ELSE <<>>]]

SectionDicts ==
    UNION { {SectionDict(filled, content) : content \in [filled -> ContentPool]} :
            filled \in {F \in SUBSET Range(SummaryKeys) : Cardinality(F) <= MaxFilled} }

\* Position in summarize_sections: "loop" at the head of the for loop over
\* sections.items() (pos is the next item), "done" after return, "raised"
\* when an exception has left the method.
SumInit ==
    /\ sum_sections \in SectionDicts
    /\ pos = 1
    /\ summaries = <<>>
    /\ calls = <<>>
    /\ spc = "loop"

SumIdle ==
    /\ sum_sections = <<>>
    /\ pos = 0
    /\ summaries = <<>>
    /\ calls = <<>>
    /\ spc = "idle"

\* summaries[section] = value
SetItem(d, key, value) ==
    [k \in DOMAIN d \cup {key} |-> IF k = key THEN value ELSE d[k]]

\* if content.strip(): is false: the item is passed over.
SkipEmptySection ==
    /\ spc = "loop"
    /\ pos <= Len(sum_sections)
    /\ Strip(sum_sections[pos].content) = <<>>
    /\ pos' = pos + 1
    /\ UNCHANGED <<sum_sections, summaries, calls, spc>>
    /\ UNCHANGED <<segVars, exVars, clnVars>>

\* An iteration whose summarizer is abstractive_summary.
SummarizeAbstractive ==
    /\ spc = "loop"
    /\ pos <= Len(sum_sections)
    /\ LET section == sum_sections[pos].section
           content == sum_sections[pos].content
       IN  /\ Strip(content) # <<>>
           /\ StrategyFor(section) = "abstractive"
           /\ calls' = Append(calls, [section |-> section, strategy |-> "abstractive"])
           /\ summaries' = SetItem(summaries, section, AbstractiveSummary(content))
    /\ pos' = pos + 1
    /\ UNCHANGED <<sum_sections, spc>>
    /\ UNCHANGED <<segVars, exVars, clnVars>>

\* An iteration whose summarizer is extractive_summary and returns.
SummarizeExtractive ==
    /\ spc = "loop"
    /\ pos <= Len(sum_sections)
    /\ LET section == sum_sections[pos].section
           content == sum_sections[pos].content
           sents   == Sents(content)
       IN  /\ Strip(content) # <<>>
           /\ StrategyFor(section) = "extractive"
           /\ calls' = Append(calls, [section |-> section, strategy |-> "extractive"])
           /\ \E scores \in ScoreRows(Len(sents)) :
                 /\ ~EmptyVocabulary(scores)
                 /\ summaries' = SetItem(summaries, section,
                                         ExtractiveSummary(sents, scores))
    /\ pos' = pos + 1
    /\ UNCHANGED <<sum_sections, spc>>
    /\ UNCHANGED <<segVars, exVars, clnVars>>

\* An iteration whose extractive_summary call raises in fit_transform: no
\* try/except surrounds the call, so the exception leaves summarize_sections.
ExtractiveRaises ==
    /\ spc = "loop"
    /\ pos <= Len(sum_sections)
    /\ LET section == sum_sections[pos].section
           content == sum_sections[pos].content
           sents   == Sents(content)
       IN  /\ Strip(content) # <<>>
           /\ StrategyFor(section) = "extractive"
           /\ calls' = Append(calls, [section |-> section, strategy |-> "extractive"])
           /\ \E scores \in ScoreRows(Len(sents)) : EmptyVocabulary(scores)
    /\ spc' = "raised"
    /\ UNCHANGED <<sum_sections, pos, summaries>>
    /\ UNCHANGED <<segVars, exVars, clnVars>>

\* return summaries
ReturnSummaries ==
    /\ spc = "loop"
    /\ pos > Len(sum_sections)
    /\ spc' = "done"
    /\ UNCHANGED <<sum_sections, pos, summaries, calls>>
    /\ UNCHANGED <<segVars, exVars, clnVars>>

----------------------------------------------------------------------------
(* extractive_summary on its own: the sentences of a section and the       *)
(* scores the vectorizer gives them are the inputs.                        *)

MaxSents == 4
SentTexts == {"A.", "B."}

ExInit ==
    /\ ex_sentences \in UNION {[1..n -> SentTexts] : n \in 1..MaxSents}
    /\ sentence_scores \in ScoreRows(Len(ex_sentences))
    /\ ex_result = <<>>
    /\ epc = "call"

ExIdle ==
    /\ ex_sentences = <<>>
    /\ sentence_scores = <<>>
    /\ ex_result = <<>>
    /\ epc = "idle"

\* vectorizer.fit_transform(sentences) raises.
VectorizerRaises ==
    /\ epc = "call"
    /\ EmptyVocabulary(sentence_scores)
    /\ epc' = "raised"
    /\ UNCHANGED <<ex_sentences, sentence_scores, ex_result>>
    /\ UNCHANGED <<segVars, sumVars, clnVars>>

\* The call returns the joined top sentences.
ExtractiveReturns ==
    /\ epc = "call"
    /\ ~EmptyVocabulary(sentence_scores)
    /\ ex_result' = ExtractiveSummary(ex_sentences, sentence_scores)
    /\ epc' = "done"
    /\ UNCHANGED <<ex_sentences, sentence_scores>>
    /\ UNCHANGED <<segVars, sumVars, clnVars>>

----------------------------------------------------------------------------
(* clean_text: six re.sub passes and a strip.                              *)

\* The characters of the model's texts.
Alphabet ==
    Range(Upper) \cup Range(Lower) \cup Range(Digits) \cup Whitespace
    \cup {".", ",", "!", "?", ";", ":", "(", ")", "[", "]", "#", "&", "-",
          EACUTE, ARDIGIT}

\* str.upper() on one character.
UpperChar(c) ==
    IF \E i \in DOMAIN Lower : Lower[i] = c
    THEN Upper[CHOOSE i \in DOMAIN Lower : Lower[i] = c]
    ELSE c

\* Character classes of the patterns (str patterns: \d and \s are Unicode).
ClassDigit == Range(Digits) \cup {ARDIGIT}                  \* \d
ClassSpace == Whitespace                                    \* \s
ClassAny   == Alphabet \ {"\n"}                             \* .
ClassKept  == Range(Lower) \cup Range(Upper) \cup Range(Digits)
              \cup {".", ",", "!", "?", ";", ":", "(", ")"} \cup Whitespace

\* A pattern is a sequence of alternatives; an alternative is a sequence of
\* items; an item is a character class with a repetition min..max (max = -1:
\* unbounded), greedy or lazy.
Item(cls, min, max, lazy) == [cls |-> cls, min |-> min, max |-> max, lazy |-> lazy]
One(cls)     == <<Item(cls, 1, 1, FALSE)>>
Star(cls)    == <<Item(cls, 0, -1, FALSE)>>
Plus(cls)    == <<Item(cls, 1, -1, FALSE)>>
LazyStar(cls) == <<Item(cls, 0, -1, TRUE)>>
AtLeast(cls, n) == <<Item(cls, n, -1, FALSE)>>
Exactly(cls, n) == <<Item(cls, n, n, FALSE)>>
\* A literal, case-sensitive or under re.IGNORECASE.
Literal(str) == [i \in DOMAIN str |-> Item({str[i]}, 1, 1, FALSE)]
LiteralI(str) ==
    [i \in DOMAIN str |-> Item({LowerChar(str[i]), UpperChar(str[i])}, 1, 1, FALSE)]

\* The number of characters of s after offset p that lie in cls, up to cap
\* (cap = -1: no cap).
RECURSIVE RunLength(_, _, _, _)
RunLength(s, p, cls, cap) ==
    IF p < Len(s) /\ cap # 0 /\ s[p + 1] \in cls
    THEN 1 + RunLength(s, p + 1, cls, IF cap > 0 THEN cap - 1 ELSE cap)
    ELSE 0

\* The backtracking matcher: the offset at which items k.. of the alternative
\* end when matched at offset p of s, or -1. A greedy item takes the longest
\* repetition that lets the rest match, a lazy one the shortest.
RECURSIVE MatchItems(_, _, _, _)
MatchItems(items, k, s, p) ==
    IF k > Len(items) THEN p
    ELSE LET it  == items[k]
             run == RunLength(s, p, it.cls, it.max)
         IN  IF run < it.min THEN -1
             ELSE IF it.min = it.max THEN MatchItems(items, k + 1, s, p + it.min)
             ELSE LET ends == [n \in it.min..run |-> MatchItems(items, k + 1, s, p + n)]
                      ok   == {n \in it.min..run : ends[n] # -1}
                  IN  IF ok = {} THEN -1
                      ELSE IF it.lazy
                           THEN ends[CHOOSE n \in ok : \A m \in ok : n <= m]
                           ELSE ends[CHOOSE n \in ok : \A m \in ok : n >= m]

\* The first alternative, in order, that matches at offset p.
RECURSIVE MatchAt(_, _, _, _)
MatchAt(pattern, a, s, p) ==
    IF a > Len(pattern) THEN -1
    ELSE LET e == MatchItems(pattern[a], 1, s, p)
         IN  IF e # -1 THEN e ELSE MatchAt(pattern, a + 1, s, p)

\* re.sub(pattern, '', s): the leftmost non-overlapping matches removed (no
\* pattern of clean_text matches the empty string).
RECURSIVE SubFrom(_, _, _)
SubFrom(pattern, s, p) ==
    IF p >= Len(s) THEN <<>>
    ELSE LET e == MatchAt(pattern, 1, s, p)
         IN  IF e > p THEN SubFrom(pattern, s, e)
             ELSE <<s[p + 1]>> \o SubFrom(pattern, s, p + 1)

Sub(pattern, s) == SubFrom(pattern, s, 0)

ReISSNe == <<"e", "I", "S", "S", "N", ":">>
ReISSNp == <<"p", "I", "S", "S", "N", ":">>
ReImpact == <<"I", "m", "p", "a", "c", "t", " ", "F", "a", "c", "t", "o", "r">>
ReVolume == <<"V", "o", "l", "u", "m", "e", ":">>
ReIssue == <<"I", "s", "s", "u", "e", ":">>
ReISO == <<"I", "S", "O">>

\* r'eISSN:\s*\d+|pISSN:\s*\d+|Impact Factor.*?\d+\.\d+', re.IGNORECASE
PatMetadata == <<
    LiteralI(ReISSNe) \o Star(ClassSpace) \o Plus(ClassDigit),
    LiteralI(ReISSNp) \o Star(ClassSpace) \o Plus(ClassDigit),
    LiteralI(ReImpact) \o LazyStar(ClassAny) \o Plus(ClassDigit)
        \o One({"."}) \o Plus(ClassDigit) >>

\* r'Volume:\s*\d+\s*Issue:\s*\d+', re.IGNORECASE
PatVolume == <<
    LiteralI(ReVolume) \o Star(ClassSpace) \o Plus(ClassDigit) \o Star(ClassSpace)
        \o LiteralI(ReIssue) \o Star(ClassSpace) \o Plus(ClassDigit) >>

\* r'ISO\s*\d{4,}', re.IGNORECASE
PatISO == << LiteralI(ReISO) \o Star(ClassSpace) \o AtLeast(ClassDigit, 4) >>

\* r'\[\d+\]'
PatBracket == << One({"["}) \o Plus(ClassDigit) \o One({"]"}) >>

\* r'\(.*?\d{4}.*?\)'
PatParenYear == <<
    One({"("}) \o LazyStar(ClassAny) \o Exactly(ClassDigit, 4)
        \o LazyStar(ClassAny) \o One({")"}) >>

\* r'[^a-zA-Z0-9.,!?;:()\s]'
PatSpecial == << One(Alphabet \ ClassKept) >>

\* Mutant: \w in place of a-zA-Z0-9, which keeps every Unicode letter and digit.
RemoveSpecialWord(t) ==
    Sub(<< One(Alphabet \ (ClassKept \cup {EACUTE, ARDIGIT})) >>, t)

\* The passes of clean_text, one per assignment to text.
RemoveMetadata(t)  == Sub(PatMetadata, t)
RemoveVolume(t)    == Sub(PatVolume, t)
RemoveISO(t)       == Sub(PatISO, t)
RemoveBracket(t)   == Sub(PatBracket, t)
RemoveParenYear(t) == Sub(PatParenYear, t)
RemoveSpecial(t)   == Sub(PatSpecial, t)
\* return text.strip()
StripText(t)       == Strip(t)

\* Pieces the extracted text is made of.
TokWord == <<"A", "b">>
TokHash == <<"#">>
TokBracket == <<"[", "1", "]">>
TokParenYear == <<"(", "a", " ", "2", "0", "2", "0", ")">>
TokParen == <<"(", "b", ")">>
TokISO == <<"i", "s", "o", " ", "9", "0", "0", "1">>
TokISSN == <<"e", "I", "S", "S", "N", ":", " ", "1", "2">>
TokVolume == <<"V", "o", "l", "u", "m", "e", ":", " ", "3", " ", "I", "s", "s", "u", "e", ":", " ", "4">>
TokImpact == <<"I", "m", "p", "a", "c", "t", " ", "F", "a", "c", "t", "o", "r", " ", "x", " ", "2", ".", "5">>

TokenPool == { <<" ">>, <<NBSP>>, <<EACUTE>>, <<ARDIGIT>>, TokWord, TokHash,
               TokBracket, TokParenYear, TokParen, TokISO, TokISSN, TokVolume,
               TokImpact }

MaxTokens == 3

RECURSIVE Flatten(_)
Flatten(ss) == IF ss = <<>> THEN <<>> ELSE Head(ss) \o Flatten(Tail(ss))

\* Position in clean_text: cpc names the next assignment to text ("metadata"
\* .. "special", then "strip"); "done" after return.
\* raw_text is the argument of the call, text the local the passes rebind.
CleanInit ==
    /\ raw_text \in {Flatten(ts) : ts \in SeqsUpTo(TokenPool, MaxTokens)}
    /\ text = raw_text
    /\ cpc = "metadata"

CleanIdle ==
    /\ raw_text = <<>>
    /\ text = <<>>
    /\ cpc = "idle"

\* text = re.sub(<metadata>, '', text, flags=re.IGNORECASE)
PassMetadata ==
    /\ cpc = "metadata"
    /\ text' = RemoveMetadata(text)
    /\ cpc' = "volume"
    /\ UNCHANGED <<raw_text, segVars, sumVars, exVars>>

\* text = re.sub(<volume/issue>, '', text, flags=re.IGNORECASE)
PassVolume ==
    /\ cpc = "volume"
    /\ text' = RemoveVolume(text)
    /\ cpc' = "iso"
    /\ UNCHANGED <<raw_text, segVars, sumVars, exVars>>

\* text = re.sub(<ISO number>, '', text, flags=re.IGNORECASE)
PassISO ==
    /\ cpc = "iso"
    /\ text' = RemoveISO(text)
    /\ cpc' = "bracket"
    /\ UNCHANGED <<raw_text, segVars, sumVars, exVars>>

\* text = re.sub(<[n] citation>, '', text)
PassBracket ==
    /\ cpc = "bracket"
    /\ text' = RemoveBracket(text)
    /\ cpc' = "parenyear"
    /\ UNCHANGED <<raw_text, segVars, sumVars, exVars>>

\* text = re.sub(<(... year ...) citation>, '', text)
PassParenYear ==
    /\ cpc = "parenyear"
    /\ text' = RemoveParenYear(text)
    /\ cpc' = "special"
    /\ UNCHANGED <<raw_text, segVars, sumVars, exVars>>

\* text = re.sub(<character not kept>, '', text)
PassSpecial ==
    /\ cpc = "special"
    /\ text' = RemoveSpecial(text)
    /\ cpc' = "strip"
    /\ UNCHANGED <<raw_text, segVars, sumVars, exVars>>

\* return text.strip()
ReturnStripped ==
    /\ cpc = "strip"
    /\ text' = StripText(text)
    /\ cpc' = "done"
    /\ UNCHANGED <<raw_text, segVars, sumVars, exVars>>

----------------------------------------------------------------------------
(* Specifications, one per function under study.                           *)

\* split_into_sections
Init == SegInit /\ SumIdle /\ ExIdle /\ CleanIdle
Next == ProcessSentence \/ ReturnSections
Spec == Init /\ [][Next]_vars

\* HybridSummarizer.summarize_sections
InitSummarize == SegIdle /\ SumInit /\ ExIdle /\ CleanIdle
NextSummarize ==
    \/ SkipEmptySection
    \/ SummarizeAbstractive
    \/ SummarizeExtractive
    \/ ExtractiveRaises
    \/ ReturnSummaries
SpecSummarize == InitSummarize /\ [][NextSummarize]_vars

\* HybridSummarizer.extractive_summary
InitExtractive == SegIdle /\ SumIdle /\ ExInit /\ CleanIdle
NextExtractive == VectorizerRaises \/ ExtractiveReturns
SpecExtractive == InitExtractive /\ [][NextExtractive]_vars

\* clean_text
InitClean == SegIdle /\ SumIdle /\ ExIdle /\ CleanInit
NextClean ==
    \/ PassMetadata
    \/ PassVolume
    \/ PassISO
    \/ PassBracket
    \/ PassParenYear
    \/ PassSpecial
    \/ ReturnStripped
SpecClean == InitClean /\ [][NextClean]_vars

----------------------------------------------------------------------------
(* Properties of split_into_sections (checked under Spec).                 *)

\* The declared section order, as the properties state it.
DeclaredOrder == <<"Title", "Abstract", "Introduction", "Methods", "Results",
                   "Discussion", "Conclusion">>

\* The keywords of each section, as the properties state them.
DeclaredKeywords ==
    [s \in Range(DeclaredOrder) |->
        CASE s = "Title"        -> {kw_title}
          [] s = "Abstract"     -> {kw_abstract}
          [] s = "Introduction" -> {kw_introduction}
          [] s = "Methods"      -> {kw_methods, kw_methodology, kw_materials_methods}
          [] s = "Results"      -> {kw_results, kw_findings}
          [] s = "Discussion"   -> {kw_discussion, kw_analysis}
          [] s = "Conclusion"   -> {kw_conclusion, kw_summary, kw_final_thoughts}]

\* Section s has a keyword occurring in the lower-cased sentence.
Mentions(sentence, s) ==
    \E kw \in DeclaredKeywords[s] : Contains(ToLower(sentence), kw)

\* The positions, in the declared order, of the sections the sentence mentions.
MentionedAt(sentence) ==
    {k \in DOMAIN DeclaredOrder : Mentions(sentence, DeclaredOrder[k])}

\* What one sentence adds to its bucket.
Piece(sentence) == sentence \o <<" ">>

\* The sentences processed so far.
Processed == 1..(idx - 1)

\* The pieces of the sentences i..n that the assignment a gives to section s,
\* in original order.
RECURSIVE PiecesOf(_, _, _, _)
PiecesOf(a, s, i, n) ==
    IF i > n THEN <<>>
    ELSE (IF a[i] = s THEN Piece(sentences[i]) ELSE <<>>) \o PiecesOf(a, s, i + 1, n)

BucketsInOrder ==
    Flatten([k \in DOMAIN DeclaredOrder |-> sections[DeclaredOrder[k]]])

OriginalText ==
    Flatten([i \in DOMAIN sentences |-> Piece(sentences[i])])

\* C1 as stated: on return, the seven buckets concatenated in the declared
\* section order read as the sentences in their original order.
C1_ConcatInOriginalOrder ==
    pc = "done" => BucketsInOrder = OriginalText

\* C1 as amended: the buckets partition the processed sentences: there is an
\* assignment of every processed sentence to exactly one section such that
\* each bucket holds exactly the sentences assigned to it, each followed by a
\* space, in their original relative order (the order across buckets is the
\* declared section order, not the original one).
C1_Partition ==
    pc \in {"loop", "done"} =>
        \E a \in [Processed -> {s \in SectionNames : sections[s] # <<>>}] :
            \A s \in SectionNames : sections[s] = PiecesOf(a, s, 1, idx - 1)

\* A run that has returned with its sentences in several buckets, out of the
\* original order when the buckets are concatenated.
C1_Witness ==
    /\ pc = "done"
    /\ Cardinality({s \in SectionNames : sections[s] # <<>>}) >= 2
    /\ BucketsInOrder # OriginalText

\* The section a sentence must go to: the first one in the declared order
\* that it mentions, else the section of the previous sentence.
ExpectedSection(sentence, previous) ==
    IF MentionedAt(sentence) = {} THEN previous
    ELSE DeclaredOrder[CHOOSE k \in MentionedAt(sentence) :
                           \A m \in MentionedAt(sentence) : k <= m]

ExampleResult ==
    [s \in Range(DeclaredOrder) |->
        CASE s = "Methods"    -> Piece(Ex1) \o Piece(Ex2) \o Piece(Ex5)
          [] s = "Results"    -> Piece(Ex3)
          [] s = "Discussion" -> Piece(Ex4)
          [] OTHER            -> <<>>]

\* C2: the cursor starts at Title; every sentence is appended to the first
\* section, in the declared order, with a keyword in the lower-cased
\* sentence, or, when there is none, to the section the previous sentence
\* went to; and the five-sentence example ends with Methods = sentences
\* 1, 2, 5, Results = sentence 3, Discussion = sentence 4.
C2_FirstMatchWins ==
    /\ [](pc = "loop" /\ idx = 1 => current_section = "Title")
    /\ [][idx' # idx =>
            LET target == ExpectedSection(sentences[idx], current_section)
            IN  /\ current_section' = target
                /\ sections'[target] = sections[target] \o Piece(sentences[idx])]_vars
    /\ [](pc = "done" /\ sentences = Example => sections = ExampleResult)

\* The example has run to its end, Methods having become current twice.
C2_Witness ==
    /\ pc = "done"
    /\ sentences = Example
    /\ sections["Methods"] = Piece(Ex1) \o Piece(Ex2) \o Piece(Ex5)
    /\ current_section = "Methods"

\* The sentence processed last.
LastSentence == sentences[idx - 1]

BothResultsAndDiscussion(sentence) ==
    Mentions(sentence, "Results") /\ Mentions(sentence, "Discussion")

MentionsEarlier(sentence) ==
    \E s \in {"Title", "Abstract", "Introduction", "Methods"} : Mentions(sentence, s)

C4_NoKeywordAllTitle ==
    (pc \in {"loop", "done"} /\ \A i \in Processed : MentionedAt(sentences[i]) = {}) =>
        /\ sections["Title"] = Flatten([i \in Processed |-> Piece(sentences[i])])
        /\ \A s \in Range(DeclaredOrder) \ {"Title"} : sections[s] = <<>>

\* A run of several sentences without any keyword has returned.
C4_Witness ==
    /\ pc = "done"
    /\ Len(sentences) >= 2
    /\ \A i \in DOMAIN sentences : MentionedAt(sentences[i]) = {}
    /\ sections["Title"] # <<>>

IsPrefix(p, q) == Len(p) <= Len(q) /\ SubSeq(q, 1, Len(p)) = p

\* C10: the map starts with the seven keys, all empty; processing a sentence
\* appends the original sentence and one space to the bucket current_section
\* names after classification and leaves the other six as they were; no
\* other step touches the map, so every bucket only ever grows at its end and
\* the key set stays the same.
C10_FrameEffect ==
    /\ DOMAIN sections = Range(DeclaredOrder)
    /\ \A s \in Range(DeclaredOrder) : sections[s] = <<>>
    /\ [][/\ DOMAIN sections' = DOMAIN sections
          /\ \A s \in DOMAIN sections : IsPrefix(sections[s], sections'[s])
          /\ IF idx' # idx
             THEN /\ sections'[current_section'] =
                        sections[current_section'] \o sentences[idx] \o <<" ">>
                  /\ \A s \in DOMAIN sections \ {current_section'} :
                        sections'[s] = sections[s]
             ELSE sections' = sections]_vars

\* Two sentences have gone to two different buckets, one of them with
\* upper-case letters kept.
C10_Witness ==
    /\ idx = 3
    /\ Cardinality({s \in SectionNames : sections[s] # <<>>}) = 2
    /\ sections[current_section] # ToLower(sections[current_section])

----------------------------------------------------------------------------
(* Properties of summarize_sections (checked under SpecSummarize).         *)

\* The items of the section map.
Items == {sum_sections[i] : i \in DOMAIN sum_sections}

\* Nothing is left of the content once it is trimmed.
Blank(content) == \A i \in DOMAIN content : content[i] \in {" ", "\t", "\n", NBSP}

\* The sections handed to a summarizer so far.
Handed == {calls[i].section : i \in DOMAIN calls}

\* C5: every key of the summary map is a key of the section map; a section
\* whose content is empty after trimming has no entry in the summary map and
\* is handed to no summarizer; and when summarize_sections returns, every
\* section with content left after trimming has been handed to a summarizer
\* and has its entry.
C5_SummaryKeys ==
    /\ DOMAIN summaries \subseteq {it.section : it \in Items}
    /\ \A it \in Items : Blank(it.content) =>
          it.section \notin DOMAIN summaries /\ it.section \notin Handed
    /\ spc = "done" =>
          \A it \in Items : ~Blank(it.content) =>
              it.section \in Handed /\ it.section \in DOMAIN summaries

\* A call has returned for a map with a whitespace-only section, an empty
\* section and a summarized one.
C5_Witness ==
    /\ spc = "done"
    /\ \E it \in Items : it.content # <<>> /\ Blank(it.content)
    /\ \E it \in Items : it.content = <<>>
    /\ DOMAIN summaries # {}

\* C6 as stated: a failure of the extractive path for one section does not
\* abort the run: no exception leaves summarize_sections.
C6_FailureIsLocal == spc # "raised"

\* The strategy table, as the property states it.
DeclaredStrategy(section) ==
    CASE section \in {"Methods", "Results"} -> "extractive"
      [] section \in {"Introduction", "Discussion", "Conclusion"} -> "abstractive"
      [] OTHER -> "extractive"

\* C7: every section is summarized with the strategy of the table: Methods
\* and Results extractive, Introduction, Discussion and Conclusion
\* abstractive, any other name (Title, Abstract, Appendix) extractive.
C7_StrategyTable ==
    \A i \in DOMAIN calls : calls[i].strategy = DeclaredStrategy(calls[i].section)

\* A name outside the table and an abstractive section have both been
\* summarized in one call.
C7_Witness ==
    /\ spc = "done"
    /\ \E i \in DOMAIN calls : calls[i].section = "Appendix"
    /\ \E i \in DOMAIN calls : calls[i].strategy = "abstractive"
    /\ DOMAIN summaries = Handed

----------------------------------------------------------------------------
(* Properties of extractive_summary (checked under SpecExtractive).        *)

\* The number of sentences the summary keeps.
Kept == IF Len(ex_sentences) < 3 THEN Len(ex_sentences) ELSE 3

\* C8: the summary is made of K = 3 sentences (all of them when there are
\* fewer) such that no sentence left out scores higher than one kept, joined
\* by single spaces in their original relative order.
C8_TopKInOriginalOrder ==
    epc = "done" =>
        \E order \in [1..Kept -> DOMAIN ex_sentences] :
            /\ \A j, k \in 1..Kept : j < k => order[j] < order[k]
            /\ \A i \in Range(order) : \A o \in DOMAIN ex_sentences \ Range(order) :
                  sentence_scores[i] >= sentence_scores[o]
            /\ ex_result = Join([j \in 1..Kept |-> ex_sentences[order[j]]])

\* Four sentences, the third one dropped, the kept ones not in score order.
C8_Witness ==
    /\ epc = "done"
    /\ ex_sentences = <<"A.", "B.", "A.", "B.">>
    /\ sentence_scores = <<1, 2, 0, 2>>
    /\ ex_result = <<"A.", " ", "B.", " ", "B.">>

----------------------------------------------------------------------------
(* Properties of clean_text (checked under SpecClean).                     *)

AsciiLetters ==
    {"a", "b", "c", "d", "e", "f", "g", "h", "i", "j", "k", "l", "m", "n", "o",
     "p", "q", "r", "s", "t", "u", "v", "w", "x", "y", "z",
     "A", "B", "C", "D", "E", "F", "G", "H", "I", "J", "K", "L", "M", "N", "O",
     "P", "Q", "R", "S", "T", "U", "V", "W", "X", "Y", "Z"}
AsciiDigits == {"0", "1", "2", "3", "4", "5", "6", "7", "8", "9"}
BasicPunctuation == {".", ",", "!", "?", ";", ":", "(", ")"}
Blanks == {" ", "\t", "\n", NBSP}

\* C9: the text clean_text returns holds only ASCII letters, digits, the
\* punctuation . , ! ? ; : ( ) and whitespace, and neither starts nor ends
\* with whitespace.
C9_CleanAlphabet ==
    cpc = "done" =>
        /\ \A i \in DOMAIN text :
              text[i] \in AsciiLetters \cup AsciiDigits \cup BasicPunctuation \cup Blanks
        /\ text # <<>> => text[1] \notin Blanks /\ text[Len(text)] \notin Blanks

\* A text that came with whitespace at both ends and characters outside the
\* kept set has been cleaned to something non-empty.
C9_Witness ==
    /\ cpc = "done"
    /\ raw_text # <<>>
    /\ raw_text[1] \in Blanks
    /\ raw_text[Len(raw_text)] \in Blanks \cup {"#", EACUTE, ARDIGIT}
    /\ \E i \in DOMAIN raw_text : raw_text[i] \in {"#", EACUTE, ARDIGIT}
    /\ text # <<>>
    /\ text # raw_text

====
